---------------------------- MODULE Spec2Model ----------------------------
(***************************************************************************)
(* Model of app.py: the Econophysics Random Walk page.                     *)
(*                                                                         *)
(* Python strings are sequences of one-character strings.  The download    *)
(* log file is a record [exists, lines]; a line is the tuple of the CSV    *)
(* fields csv.writer was given.  Prices are integers (price units): the    *)
(* additions of the walk are kept, the floating-point rounding is not.     *)
(***************************************************************************)
EXTENDS Integers, Sequences, FiniteSets, TLC

VARIABLES
    logFile,      \* download_logs.csv: [exists, lines]
    adminToken,   \* ADMIN_TOKEN, read from the environment at start-up
    rng,          \* numpy's global random state: [seed, pos]
    df,           \* the dataset of the last script run: [loaded, columns]
    page,         \* what the last script run rendered
    request,      \* the inputs of the last script run
    generated,    \* every Price column the generator has produced
    lastOp,       \* the last operation: [op, name, title]
    calls,        \* the (name, title) of every call that wrote a row, in order
    sess,         \* concurrent sessions inside log_download
    titleIn,      \* a document title under study
    nameOut       \* the file name base derived from titleIn

vars == <<logFile, adminToken, rng, df, page, request, generated, lastOp,
          calls, sess, titleIn, nameOut>>

---------------------------------------------------------------------------
(* Bounds *)

MaxRows == 2          \* data rows the log may hold
MaxLen == 4           \* length of the titles of SpecTitle
NumSessions == 2      \* concurrent sessions of SpecConc

---------------------------------------------------------------------------
(* Python string operations *)

Whitespace == {" ", "\t", "\n"}

IsSpace(c) == c \in Whitespace

RECURSIVE lstrip(_)
lstrip(s) ==
    IF s = <<>> THEN <<>>
    ELSE IF IsSpace(Head(s)) THEN lstrip(Tail(s)) ELSE s

RECURSIVE rstrip(_)
rstrip(s) ==
    IF s = <<>> THEN <<>>
    ELSE IF IsSpace(s[Len(s)]) THEN rstrip(SubSeq(s, 1, Len(s) - 1)) ELSE s

\* str.strip(): leading and trailing whitespace removed
strip(s) == rstrip(lstrip(s))

\* str.split() with no separator: the maximal runs of non-whitespace
RECURSIVE SplitFrom(_, _, _)
SplitFrom(s, cur, acc) ==
    IF s = <<>> THEN (IF cur = <<>> THEN acc ELSE Append(acc, cur))
    ELSE IF IsSpace(Head(s))
         THEN SplitFrom(Tail(s), <<>>, IF cur = <<>> THEN acc ELSE Append(acc, cur))
         ELSE SplitFrom(Tail(s), Append(cur, Head(s)), acc)

split(s) == SplitFrom(s, <<>>, <<>>)

\* sep.join(words)
RECURSIVE join(_, _)
join(sep, words) ==
    IF words = <<>> THEN <<>>
    ELSE IF Len(words) = 1 THEN words[1]
    ELSE words[1] \o sep \o join(sep, Tail(words))

\* x or y, on strings: x when it is non-empty
Or(x, y) == IF x # <<>> THEN x ELSE y

\* All strings over alphabet of length at most n
RECURSIVE StringsUpTo(_, _)
StringsUpTo(alphabet, n) ==
    IF n = 0 THEN {<<>>}
    ELSE LET shorter == StringsUpTo(alphabet, n - 1)
         IN  shorter \cup {Append(s, c) : s \in shorter, c \in alphabet}

---------------------------------------------------------------------------
(* The download log: log_download *)

\* writer.writerow(["timestamp", "name", "title"])
Header == << "timestamp", <<"n","a","m","e">>, <<"t","i","t","l","e">> >>

NoFile == [exists |-> FALSE, lines |-> <<>>]

\* datetime.utcnow().isoformat(): a value of the environment
Timestamps == {"2026-01-01T00:00:00"}

DataRows(file) == IF file.lines # <<>> /\ file.lines[1] = Header
                  THEN Tail(file.lines) ELSE file.lines

\* open(LOG_PATH, "w"): the file is truncated before the rows are written
log_download_truncating(name, title, ts, file) ==
    LET cleaned_name == strip(name)
        is_new_file == ~file.exists
    IN  IF cleaned_name = <<>> THEN file
        ELSE [exists |-> TRUE,
              lines |-> (IF is_new_file THEN <<Header>> ELSE <<>>)
                        \o << <<ts, cleaned_name, title>> >>]

\* the header written on every call
log_download_always_header(name, title, ts, file) ==
    LET cleaned_name == strip(name)
    IN  IF cleaned_name = <<>> THEN file
        ELSE [exists |-> TRUE,
              lines |-> file.lines \o <<Header>> \o << <<ts, cleaned_name, title>> >>]

\* the early return on a blank name applied to the unstripped name
log_download_unstripped_check(name, title, ts, file) ==
    LET cleaned_name == strip(name)
        is_new_file == ~file.exists
    IN  IF name = <<>> THEN file
        ELSE [exists |-> TRUE,
              lines |-> file.lines
                        \o (IF is_new_file THEN <<Header>> ELSE <<>>)
                        \o << <<ts, cleaned_name, title>> >>]

\* log_download(name, title) run from start to end with nothing interleaved:
\* the file after the call
log_download(name, title, ts, file) ==
    LET cleaned_name == strip(name)
        is_new_file == ~file.exists
    IN  IF cleaned_name = <<>> THEN file
        ELSE [exists |-> TRUE,
              lines |-> file.lines
                        \o (IF is_new_file THEN <<Header>> ELSE <<>>)
                        \o << <<ts, cleaned_name, title>> >>]

---------------------------------------------------------------------------
(* The default random walk *)

Seed == 42
Steps == 16
StartPrice == 100
NumDraws == 15

\* Seeds numpy may take from the operating system when the process starts
StartupSeeds == {7}

\* The pos-th normal(0, 2) draw of the stream that seed starts, in price units
NoiseAt(seed, pos) == ((seed * 7 + 3 * pos * pos + 5 * pos) % 9) - 4

\* np.random.seed(n)
seed(n) == [seed |-> n, pos |-> 0]

\* np.random.normal(0, 2): the value drawn and the state after the draw
normal(r) == [value |-> NoiseAt(r.seed, r.pos),
              rng   |-> [r EXCEPT !.pos = @ + 1]]

\* for i in range(n): price.append(price[-1] + np.random.normal(0, 2))
RECURSIVE WalkLoop(_, _, _)
WalkLoop(price, r, n) ==
    IF n = 0 THEN [price |-> price, rng |-> r]
    ELSE LET d == normal(r)
         IN  WalkLoop(Append(price, price[Len(price)] + d.value), d.rng, n - 1)

\* the walk drawn from the random state as it was left, without np.random.seed
generate_unseeded(r) ==
    LET time == [i \in 1..Steps |-> i - 1]
        w == WalkLoop(<<StartPrice>>, r, NumDraws)
    IN  [df  |-> [loaded |-> TRUE,
                  columns |-> << [name |-> "Time", data |-> time],
                                 [name |-> "Price", data |-> w.price] >>],
         rng |-> w.rng]

\* the loop run once too often: range(16)
generate_extra_step(r) ==
    LET time == [i \in 1..Steps |-> i - 1]
        w == WalkLoop(<<StartPrice>>, seed(Seed), NumDraws + 1)
    IN  [df  |-> [loaded |-> TRUE,
                  columns |-> << [name |-> "Time", data |-> time],
                                 [name |-> "Price", data |-> w.price] >>],
         rng |-> w.rng]

\* np.random.seed(42) followed by the loop
SeededWalk == WalkLoop(<<StartPrice>>, seed(Seed), NumDraws)

\* The else branch of the data source choice: the dataset and the random
\* state after it.  r is the random state before.
generate(r) ==
    LET time == [i \in 1..Steps |-> i - 1]
        w == SeededWalk
    IN  [df  |-> [loaded |-> TRUE,
                  columns |-> << [name |-> "Time", data |-> time],
                                 [name |-> "Price", data |-> w.price] >>],
         rng |-> w.rng]

---------------------------------------------------------------------------
(* The upload branch *)

NoDf == [loaded |-> FALSE, columns |-> <<>>]

\* st.file_uploader returned None
NoUpload == [present |-> FALSE, parses |-> FALSE, columns |-> <<>>]

Col(n, d) == [name |-> n, data |-> d]

\* Uploaded files, as pd.read_csv / pd.read_excel return them: a file that
\* the parser rejects, and tables of one, two and three columns.
Uploads ==
    { [present |-> TRUE, parses |-> FALSE, columns |-> <<>>],
      [present |-> TRUE, parses |-> TRUE,
       columns |-> << Col("Date", <<1, 2>>) >>],
      [present |-> TRUE, parses |-> TRUE,
       columns |-> << Col("Price", <<1, 2>>), Col("Time", <<30, 40>>) >>],
      [present |-> TRUE, parses |-> TRUE,
       columns |-> << Col("Date", <<1, 2>>), Col("Close", <<30, 40>>),
                      Col("Volume", <<500, 600>>) >>],
      [present |-> TRUE, parses |-> TRUE,
       columns |-> << Col("Date", <<1, 2>>), Col("Close", <<30, 40>>),
                      Col("Price", <<31, 41>>) >>] }

\* df.columns = ['Time', 'Price'] + list(df.columns[2:])
Rename(cols) ==
    [i \in 1..Len(cols) |->
        [cols[i] EXCEPT !.name = IF i = 1 THEN "Time"
                                 ELSE IF i = 2 THEN "Price" ELSE @]]

WithLabel(cols, label) ==
    LET Has(c) == c.name = label IN SelectSeq(cols, Has)

\* df[labels]: for each label in turn, every column that carries it
RECURSIVE SelectLabels(_, _)
SelectLabels(cols, labels) ==
    IF labels = <<>> THEN <<>>
    ELSE WithLabel(cols, Head(labels)) \o SelectLabels(cols, Tail(labels))

\* the upload branch for a file that is present: the dataset and the error shown
upload(file) ==
    IF ~file.parses
    THEN [df |-> NoDf, error |-> "Error reading file"]
    ELSE IF Len(file.columns) >= 2
         THEN [df |-> [loaded |-> TRUE,
                       columns |-> SelectLabels(Rename(file.columns),
                                                <<"Time", "Price">>)],
               error |-> "none"]
         ELSE [df |-> NoDf, error |-> "File must have at least 2 columns"]

---------------------------------------------------------------------------
(* Title and file name *)

DefaultTitle ==
    <<"R","a","n","d","o","m"," ","W","a","l","k"," ","R","e","p","o","r","t">>

DefaultName ==
    <<"r","a","n","d","o","m","_","w","a","l","k","_","r","e","p","o","r","t">>

\* the title used as typed, with no fallback
cleaned_title_no_fallback(document_title) == strip(document_title)

cleaned_title(document_title) == Or(strip(document_title), DefaultTitle)

\* every single whitespace character replaced by an underscore
download_name_per_char(title) ==
    LET t == cleaned_title(title)
    IN  Or([i \in 1..Len(t) |-> IF IsSpace(t[i]) THEN "_" ELSE t[i]], DefaultName)

download_name(title) == Or(join(<<"_">>, split(cleaned_title(title))), DefaultName)

---------------------------------------------------------------------------
(* The admin view *)

\* the token compared only when one was provided
admin_view_skips_empty_token(is_admin, provided_token, token) ==
    IF ~is_admin THEN "Hidden"
    ELSE IF ~token.set \/ token.value = "" THEN "Disabled"
    ELSE IF provided_token # "" /\ provided_token # token.value THEN "Unauthorized"
    ELSE "Authorized"

\* if is_admin: ... if not ADMIN_TOKEN / elif provided_token != ADMIN_TOKEN / else
admin_view(is_admin, provided_token, token) ==
    IF ~is_admin THEN "Hidden"
    ELSE IF ~token.set \/ token.value = "" THEN "Disabled"
    ELSE IF provided_token # token.value THEN "Unauthorized"
    ELSE "Authorized"

---------------------------------------------------------------------------
(* One run of the script *)

\* Values typed into the two text inputs
Titles == { DefaultTitle, <<" ">>, <<" ", "t", " ">> }
Names == { <<>>, <<"n">>, <<"\t", "m", " ">> }

\* Query parameters admin and token; the environment's ADMIN_TOKEN
AdminParams == {"0", "1"}
Tokens == {"", "secret123"}
EnvTokens == { [set |-> FALSE, value |-> ""],
               [set |-> TRUE,  value |-> ""],
               [set |-> TRUE,  value |-> "secret123"] }

\* The dataset the data source choice of a request leads to
DataOf(req, r) ==
    IF req.data_option = "upload"
    THEN IF req.uploaded_file.present
         THEN upload(req.uploaded_file) @@ [rng |-> r, made |-> FALSE]
         ELSE [df |-> NoDf, error |-> "none", rng |-> r, made |-> FALSE]
    ELSE generate(r) @@ [error |-> "none", made |-> TRUE]

NoLog == [shown |-> FALSE, lines |-> <<>>]

\* The page one run of the script renders, top to bottom
Render(req, data, file, token) ==
    LET outcome == admin_view(req.admin = "1", req.token, token)
    IN  [ error    |-> data.error,
          sections |-> data.df.loaded,
          title    |-> IF data.df.loaded
                       THEN cleaned_title(req.document_title) ELSE <<>>,
          file_name |-> IF data.df.loaded
                        THEN download_name(req.document_title) \o <<".png">>
                        ELSE <<>>,
          button_enabled |-> data.df.loaded /\ strip(req.downloader_name) # <<>>,
          button_args |-> IF data.df.loaded
                          THEN <<req.downloader_name,
                                 cleaned_title(req.document_title)>>
                          ELSE <<>>,
          admin    |-> outcome,
          adminLog |-> IF outcome = "Authorized" /\ file.exists
                       THEN [shown |-> TRUE, lines |-> file.lines]
                       ELSE NoLog ]

\* A session's inputs when the page is opened with the given query parameters:
\* the radio on its first option, no file, the text inputs at their initial values
Opened(admin, token) ==
    [ data_option |-> "upload", uploaded_file |-> NoUpload,
      document_title |-> DefaultTitle, downloader_name |-> <<>>,
      admin |-> admin, token |-> token ]

\* A widget that a run does not render loses its value: the file uploader
\* exists only under the upload option, the two text inputs only when a
\* dataset was loaded.
Widgets(req) ==
    LET r1 == IF req.data_option = "generate"
              THEN [req EXCEPT !.uploaded_file = NoUpload] ELSE req
    IN  IF DataOf(r1, seed(Seed)).df.loaded THEN r1
        ELSE [r1 EXCEPT !.document_title = DefaultTitle,
                        !.downloader_name = <<>>]

Init ==
    /\ logFile = NoFile
    /\ adminToken \in EnvTokens
    /\ rng \in {seed(s) : s \in StartupSeeds}
    /\ request = Opened("0", "")
    /\ df = NoDf
    /\ page = Render(request, DataOf(request, rng), NoFile, adminToken)
    /\ generated = {}
    /\ lastOp = [op |-> "start", name |-> <<>>, title |-> <<>>]
    /\ calls = <<>>
    /\ sess = [s \in 1..NumSessions |-> [pc |-> "idle", name |-> <<>>,
                                         title |-> <<>>, is_new_file |-> FALSE]]
    /\ titleIn = <<>>
    /\ nameOut = <<>>

\* The script run from top to bottom for inputs req, the log file being file
Script(req, file) ==
    LET data == DataOf(req, rng)
    IN  /\ request' = req
        /\ df' = data.df
        /\ rng' = data.rng
        /\ generated' = IF data.made
                        THEN generated \cup {data.df.columns}
                        ELSE generated
        /\ page' = Render(req, data, file, adminToken)

Rerun(req) ==
    /\ Script(Widgets(req), logFile)
    /\ lastOp' = [op |-> "run", name |-> <<>>, title |-> <<>>]
    /\ UNCHANGED <<logFile, adminToken, calls, sess, titleIn, nameOut>>

\* The page is opened with query parameters admin and token
OpenPage == \E a \in AdminParams, t \in Tokens : Rerun(Opened(a, t))

\* The data source radio is changed
ChooseSource ==
    \E o \in {"upload", "generate"} : Rerun([request EXCEPT !.data_option = o])

\* A file is put into the uploader
UploadFile ==
    /\ request.data_option = "upload"
    /\ \E f \in Uploads : Rerun([request EXCEPT !.uploaded_file = f])

\* The documentation title is edited
EditTitle ==
    /\ page.sections
    /\ \E t \in Titles : Rerun([request EXCEPT !.document_title = t])

\* The downloader's name is edited
EditName ==
    /\ page.sections
    /\ \E n \in Names : Rerun([request EXCEPT !.downloader_name = n])

\* The download button is clicked: its on_click callback runs with the args
\* the page holds, then the script runs again with the inputs unchanged
Click ==
    /\ page.sections
    /\ page.button_enabled
    /\ Len(DataRows(logFile)) < MaxRows
    /\ \E ts \in Timestamps :
         LET name == page.button_args[1]
             title == page.button_args[2]
             file == log_download(name, title, ts, logFile)
         IN  /\ logFile' = file
             /\ Script(request, file)
             /\ lastOp' = [op |-> "click", name |-> name, title |-> title]
             /\ calls' = Append(calls, <<name, title>>)
    /\ UNCHANGED <<adminToken, sess, titleIn, nameOut>>

Next == OpenPage \/ ChooseSource \/ UploadFile \/ EditTitle \/ EditName \/ Click

Spec == Init /\ [][Next]_vars

---------------------------------------------------------------------------
(* log_download called directly, one call after the other *)

\* s is empty or holds whitespace only
IsBlank(s) == \A i \in 1..Len(s) : IsSpace(s[i])

\* Arguments of a direct call: any string, blank ones included
CallNames == Names \cup { <<" ", " ">> }
CallTitles == Titles \cup { <<>> }

CallLogDownload ==
    /\ Len(DataRows(logFile)) < MaxRows
    /\ \E name \in CallNames, title \in CallTitles, ts \in Timestamps :
         /\ logFile' = log_download(name, title, ts, logFile)
         /\ lastOp' = [op |-> "log_download", name |-> name, title |-> title]
         /\ calls' = IF IsBlank(name) THEN calls ELSE Append(calls, <<name, title>>)
    /\ UNCHANGED <<adminToken, rng, df, page, request, generated, sess,
                   titleIn, nameOut>>

NextLog == CallLogDownload

SpecLog == Init /\ [][NextLog]_vars

---------------------------------------------------------------------------
(* log_download run by several sessions at once: no lock is taken, so the  *)
(* steps of one call interleave with the steps of the others.  The rows a  *)
(* call writes stay in the file object's buffer until the with block       *)
(* closes the file, and reach the file as one append.                      *)

Sessions == 1..NumSessions

InFlight == Cardinality({s \in Sessions : sess[s].pc # "idle"})

\* cleaned_name = name.strip(); if not cleaned_name: return; mkdir
Enter(s) ==
    /\ sess[s].pc = "idle"
    /\ Len(DataRows(logFile)) + InFlight < MaxRows
    /\ \E name \in CallNames :
         /\ sess' = [sess EXCEPT ![s] =
                       IF strip(name) = <<>> THEN @
                       ELSE [pc |-> "exists", name |-> strip(name),
                             title |-> DefaultTitle, is_new_file |-> FALSE]]
         /\ lastOp' = [op |-> "log_download", name |-> name, title |-> DefaultTitle]
    /\ UNCHANGED <<logFile, adminToken, rng, df, page, request, generated,
                   calls, titleIn, nameOut>>

\* is_new_file = not LOG_PATH.exists()
CheckExists(s) ==
    /\ sess[s].pc = "exists"
    /\ sess' = [sess EXCEPT ![s].pc = "open", ![s].is_new_file = ~logFile.exists]
    /\ UNCHANGED <<logFile, adminToken, rng, df, page, request, generated,
                   lastOp, calls, titleIn, nameOut>>

\* LOG_PATH.open("a", newline=""): append mode creates a missing file
Open(s) ==
    /\ sess[s].pc = "open"
    /\ logFile' = [logFile EXCEPT !.exists = TRUE]
    /\ sess' = [sess EXCEPT ![s].pc = "write"]
    /\ UNCHANGED <<adminToken, rng, df, page, request, generated, lastOp,
                   calls, titleIn, nameOut>>

\* the body of the with block and its exit: the buffered rows are appended
WriteAndClose(s) ==
    /\ sess[s].pc = "write"
    /\ \E ts \in Timestamps :
         logFile' = [logFile EXCEPT !.lines =
                       @ \o (IF sess[s].is_new_file THEN <<Header>> ELSE <<>>)
                         \o << <<ts, sess[s].name, sess[s].title>> >>]
    /\ sess' = [sess EXCEPT ![s].pc = "idle"]
    /\ calls' = Append(calls, <<sess[s].name, sess[s].title>>)
    /\ UNCHANGED <<adminToken, rng, df, page, request, generated, lastOp,
                   titleIn, nameOut>>

NextConc ==
    \E s \in Sessions : Enter(s) \/ CheckExists(s) \/ Open(s) \/ WriteAndClose(s)

SpecConc == Init /\ [][NextConc]_vars

---------------------------------------------------------------------------
(* The file name base as a function of the title *)

TitleAlphabet == {"a", " ", "\t"}

InitTitle ==
    /\ logFile = NoFile
    /\ adminToken = [set |-> FALSE, value |-> ""]
    /\ rng \in {seed(s) : s \in StartupSeeds}
    /\ request = Opened("0", "")
    /\ df = NoDf
    /\ page = Render(request, DataOf(request, rng), NoFile, adminToken)
    /\ generated = {}
    /\ lastOp = [op |-> "start", name |-> <<>>, title |-> <<>>]
    /\ calls = <<>>
    /\ sess = [s \in Sessions |-> [pc |-> "idle", name |-> <<>>,
                                   title |-> <<>>, is_new_file |-> FALSE]]
    /\ titleIn \in StringsUpTo(TitleAlphabet, MaxLen)
    /\ nameOut = <<>>

DeriveName ==
    /\ lastOp.op = "start"
    /\ nameOut' = download_name(titleIn)
    /\ lastOp' = [op |-> "derive", name |-> <<>>, title |-> titleIn]
    /\ UNCHANGED <<logFile, adminToken, rng, df, page, request, generated,
                   calls, sess, titleIn>>

NextTitle == DeriveName

SpecTitle == InitTitle /\ [][NextTitle]_vars

---------------------------------------------------------------------------
(* Properties *)

\* s with its leading and trailing whitespace removed, stated by position
Trimmed(s) ==
    IF IsBlank(s) THEN <<>>
    ELSE LET first == CHOOSE i \in 1..Len(s) :
                         ~IsSpace(s[i]) /\ \A k \in 1..(i - 1) : IsSpace(s[k])
             last  == CHOOSE j \in 1..Len(s) :
                         ~IsSpace(s[j]) /\ \A k \in (j + 1)..Len(s) : IsSpace(s[k])
         IN  SubSeq(s, first, last)

IsPrefix(a, b) == Len(a) <= Len(b) /\ SubSeq(b, 1, Len(a)) = a

\* C1: the admin view's outcome is decided by the request's admin flag, the
\* provided token and the configured token alone, in this order: flag false
\* -> Hidden; configured token unset or empty -> Disabled; tokens differ ->
\* Unauthorized; otherwise Authorized.  The log is shown only when Authorized.
C1_AdminOutcome ==
    LET flag == request.admin = "1"
        unset == ~adminToken.set \/ adminToken.value = ""
    IN  /\ ~flag => page.admin = "Hidden"
        /\ flag /\ unset => page.admin = "Disabled"
        /\ flag /\ ~unset /\ request.token # adminToken.value
              => page.admin = "Unauthorized"
        /\ flag /\ ~unset /\ request.token = adminToken.value
              => page.admin = "Authorized"
        /\ page.adminLog.shown => page.admin = "Authorized"

\* The log is shown to an authorized admin after downloads were logged
C1_Witness ==
    /\ page.admin = "Authorized"
    /\ page.adminLog.shown
    /\ Len(page.adminLog.lines) >= 2

\* C2: from an absent store, after N >= 1 successful sequential calls the
\* file is one header row followed by N data rows, the i-th carrying the
\* trimmed name and the title of the i-th call.
C2_HeaderThenRows ==
    calls # <<>> =>
        /\ logFile.exists
        /\ Len(logFile.lines) = Len(calls) + 1
        /\ logFile.lines[1] = Header
        /\ \A i \in 1..Len(calls) :
              /\ logFile.lines[i + 1] # Header
              /\ logFile.lines[i + 1][2] = Trimmed(calls[i][1])
              /\ logFile.lines[i + 1][3] = calls[i][2]

\* Two successful calls with different names, the second one padded
C2_Witness ==
    /\ Len(calls) = 2
    /\ calls[1][1] = <<"n">>
    /\ calls[2][1] = <<"\t", "m", " ">>
    /\ Len(logFile.lines) = 3

\* C3: a call whose name is empty or whitespace only leaves the store as it
\* was: absent if it was absent, unchanged if it existed.
C3_BlankNameNoOp ==
    [][ (lastOp'.op = "log_download" /\ IsBlank(lastOp'.name))
            => logFile' = logFile ]_vars

\* A whitespace-only name was passed and the store is still absent
C3_Witness ==
    /\ lastOp.op = "log_download"
    /\ lastOp.name = <<" ", " ">>
    /\ ~logFile.exists

\* C4: the store is append-only: what it held before a step is a prefix of
\* what it holds after, it never disappears, and a script run (which is
\* where the admin view reads it) leaves it unchanged.
C4_AppendOnly ==
    [][ /\ IsPrefix(logFile.lines, logFile'.lines)
        /\ logFile.exists => logFile'.exists
        /\ lastOp'.op = "run" => logFile' = logFile ]_vars

\* Two downloads were logged and the admin view then read the log
C4_Witness ==
    /\ Len(logFile.lines) = 3
    /\ lastOp.op = "run"
    /\ page.adminLog.shown
    /\ page.adminLog.lines = logFile.lines

\* C5: with concurrent sessions the header is written exactly once, as the
\* first line: a non-empty file starts with the header and holds no other.
C5_HeaderOnceFirst ==
    logFile.lines # <<>> =>
        /\ logFile.lines[1] = Header
        /\ \A i \in 2..Len(logFile.lines) : logFile.lines[i] # Header

\* C6: every data row has a non-empty name without leading or trailing
\* whitespace and a non-blank title; a click made with a blank title is
\* recorded with the default title.
C6_RowsWellFormed ==
    /\ \A i \in 1..Len(DataRows(logFile)) :
          LET row == DataRows(logFile)[i]
          IN  /\ row[2] # <<>>
              /\ ~IsSpace(row[2][1])
              /\ ~IsSpace(row[2][Len(row[2])])
              /\ ~IsBlank(row[3])
    /\ (lastOp.op = "click" /\ IsBlank(request.document_title))
          => logFile.lines[Len(logFile.lines)][3] = DefaultTitle

\* A click with a padded name and a blank title was logged
C6_Witness ==
    /\ lastOp.op = "click"
    /\ request.document_title = <<" ">>
    /\ request.downloader_name = <<"\t", "m", " ">>
    /\ logFile.lines[Len(logFile.lines)][2] = <<"m">>

\* C7: the generator returns 16 rows, Time = 0..15, Price[0] = 100 and
\* Price[i] = Price[i-1] + the i-th draw of the stream seeded with 42, and
\* consumes exactly 15 draws.
C7_GeneratorShape ==
    request.data_option = "generate" =>
        /\ df.loaded
        /\ Len(df.columns) = 2
        /\ df.columns[1].name = "Time"
        /\ df.columns[2].name = "Price"
        /\ Len(df.columns[1].data) = 16
        /\ Len(df.columns[2].data) = 16
        /\ \A i \in 1..16 : df.columns[1].data[i] = i - 1
        /\ df.columns[2].data[1] = 100
        /\ \A i \in 1..15 :
              df.columns[2].data[i + 1]
                 = df.columns[2].data[i] + NoiseAt(42, i - 1)
        /\ rng = [seed |-> 42, pos |-> 15]

\* The default walk was generated
C7_Witness ==
    /\ request.data_option = "generate"
    /\ lastOp.op = "run"
    /\ df.loaded

\* C8: every generation yields the same series, whatever ran before it.
C8_Deterministic == Cardinality(generated) <= 1

\* The walk was generated to render the page and again by the run that
\* follows a click, the random state having been advanced in between
C8_Witness ==
    /\ request.data_option = "generate"
    /\ lastOp.op = "click"
    /\ Len(logFile.lines) = 3
    /\ generated # {}

\* the words of a trimmed string joined by one underscore per whitespace run
RECURSIVE Underscored(_)
Underscored(s) ==
    IF s = <<>> THEN <<>>
    ELSE IF ~IsSpace(s[1]) THEN <<s[1]>> \o Underscored(Tail(s))
    ELSE IF Len(s) >= 2 /\ IsSpace(s[2]) THEN Underscored(Tail(s))
    ELSE <<"_">> \o Underscored(Tail(s))

DefaultBase ==
    <<"R","a","n","d","o","m","_","W","a","l","k","_","R","e","p","o","r","t">>

C10_UploadOutcome ==
    (request.data_option = "upload" /\ request.uploaded_file.present) =>
        LET f == request.uploaded_file
        IN  /\ (~f.parses \/ Len(f.columns) < 2) =>
                  /\ page.error # "none"
                  /\ ~df.loaded
                  /\ ~page.sections
                  /\ ~page.button_enabled
            /\ (f.parses /\ Len(f.columns) >= 2) =>
                  /\ df.loaded
                  /\ df.columns = << [name |-> "Time",  data |-> f.columns[1].data],
                                     [name |-> "Price", data |-> f.columns[2].data] >>

===========================================================================
